---- MODULE Spec2Model ----
(***************************************************************************)
(* ImgAlg (src/src/main.rs): two image files are each reduced to a         *)
(* fingerprint (delta-encoded squared colours of a 16x16 grid), the two    *)
(* fingerprints are compared position by position, and the aggregate       *)
(* difference is mapped to a similarity percentage.                        *)
(*                                                                         *)
(* Representation of f32/f64 values: TLC has 32-bit integers only, so a    *)
(* floating-point quantity v is held as the integer v * Scale (fixed       *)
(* point, rounded towards zero).  A percentage is held as an integer       *)
(* numerator over PercentDen.  Zero, the order of values and the clamp     *)
(* bounds are exact in this representation.                                *)
(*                                                                         *)
(* The image crate (open, decode, into_rgba8, resize_exact, pixels) is     *)
(* outside the repository: a file is described by what those calls return  *)
(* for it, i.e. whether it opens, its DynamicImage variant, and the 16x16  *)
(* RGBA grid that resize_exact yields.                                     *)
(***************************************************************************)
EXTENDS Integers, Sequences, FiniteSets, TLC

VARIABLES
    args,                \* main: the two files named by args[1], args[2]
    pc,                  \* main: position in the program
    imgs,                \* ImagesComparer::new: the vector under construction
    comparer,            \* main: the ImagesComparer, None before construction
    idx,                 \* main: index of the printing loop
    percent_similarity,  \* main: value returned by similarity_percentage()
    stdout,              \* lines printed with println!
    stderr               \* lines printed with eprintln! or by a panic

vars == <<args, pc, imgs, comparer, idx, percent_similarity, stdout, stderr>>

---------------------------------------------------------------------------
(* Bounds of the model *)

\* number of distinct pixel colours the input images draw from
NumColours == 3

\* fixed-point resolution: a float v is held as the integer v * Scale
Scale == 100

---------------------------------------------------------------------------
(* Option and Result *)

None == <<>>

Some(v) == <<v>>

unwrap(o) == o[1]

Ok(v) == [tag |-> "Ok", val |-> v]

Err(e) == [tag |-> "Err", val |-> e]

Panic(msg) == [tag |-> "Panic", val |-> msg]

\* The element of a singleton set.  A loop writes its next iteration as
\* Only({loop(.., s) : s \in {step}}): the loop state s is then a value when
\* the iteration starts, as it is in the program.
Only(S) == CHOOSE v \in S : TRUE

---------------------------------------------------------------------------
(* Input files *)

\* pixel colours (R, G, B) an input grid may hold
Palette ==
    << <<0, 0, 0>>, <<255, 255, 255>>, <<255, 0, 0>>, <<10, 200, 90>>,
       <<0, 0, 255>> >>

Colours == 1 .. NumColours

NextColour(c) == (c % NumColours) + 1

SupportedVariants == {"ImageRgb8", "ImageRgba8", "ImageLuma8", "ImageLumaA8"}

UnsupportedVariants == {"ImageRgb16", "ImageRgba32F"}

GridWidth == 16

GridHeight == 16

\* Grid patterns over two palette colours a and b:
\*   quadrant          the top-left quadrant is a, the other three are b
\*   stripes           even columns are a, odd columns are b
\*   stripes_quadrant  as stripes, with a and b exchanged in the top-left
\*                     quadrant
Patterns ==
    {[shape |-> "quadrant", a |-> a, b |-> b] : a \in Colours, b \in Colours}
    \cup {[shape |-> "stripes", a |-> a, b |-> NextColour(a)] : a \in Colours}
    \cup {[shape |-> "stripes_quadrant", a |-> 1, b |-> NextColour(1)]}

InQuadrant(q, x, y) ==
    /\ (x < GridWidth \div 2) = (q \in {1, 3})
    /\ (y < GridHeight \div 2) = (q \in {1, 2})

PatternColour(p, x, y) ==
    CASE p.shape = "quadrant" -> IF InQuadrant(1, x, y) THEN p.a ELSE p.b
      [] p.shape = "stripes" -> IF x % 2 = 0 THEN p.a ELSE p.b
      [] p.shape = "stripes_quadrant" ->
            IF (x % 2 = 0) # InQuadrant(1, x, y) THEN p.a ELSE p.b

\* Rgba([r, g, b, a]) of the resized image at (x, y)
ScaledPixel(p, x, y) == Palette[PatternColour(p, x, y)] \o <<255>>

PlainPattern == [shape |-> "quadrant", a |-> 1, b |-> 1]

Files ==
    {[readable |-> FALSE, variant |-> "ImageRgba8", pattern |-> PlainPattern]}
    \cup {[readable |-> TRUE, variant |-> v, pattern |-> PlainPattern] :
             v \in UnsupportedVariants \cup (SupportedVariants \ {"ImageRgba8"})}
    \cup {[readable |-> TRUE, variant |-> "ImageRgba8", pattern |-> p] :
             p \in Patterns}

---------------------------------------------------------------------------
(* convert_to_rgba *)

\* variant of convert_to_rgba: the catch-all arm converts instead of panicking
convert_to_rgba_fallback(variant) == Ok("ImageRgba8")

\* The four 8-bit variants are converted (into_rgba8, or a clone), any other
\* variant panics.  The converted pixels are those of the file's grid.
convert_to_rgba(variant) ==
    IF variant \in SupportedVariants
    THEN Ok("ImageRgba8")
    ELSE Panic("\\u{41d}\\u{435}\\u{43f}\\u{43e}\\u{434}\\u{434}\\u{435}\\u{440}\\u{436}\\u{438}\\u{432}\\u{430}\\u{435}\\u{43c}\\u{44b}\\u{439} \\u{444}\\u{43e}\\u{440}\\u{43c}\\u{430}\\u{442} \\u{438}\\u{437}\\u{43e}\\u{431}\\u{440}\\u{430}\\u{436}\\u{435}\\u{43d}\\u{438}\\u{44f}.")

---------------------------------------------------------------------------
(* ImagesComparer::_get_pixels_diff *)

\* image::open(image_path).context("Failed to open the image")
image_open(file) ==
    IF file.readable THEN Ok(file.variant) ELSE Err("Failed to open the image")

\* scaled_sample.pixels().collect(): (x, y, Rgba) in row-major order
collect_pixels(file) ==
    [k \in 1 .. GridWidth * GridHeight |->
        LET x == (k - 1) % GridWidth
            y == (k - 1) \div GridWidth
        IN  <<x, y, ScaledPixel(file.pattern, x, y)>>]

DefaultPixel == <<0, 0, <<0, 0, 0, 255>>>>

\* *pixels.get(y * 16 + x).unwrap_or(&default)
pixel_at(pixels, x, y) ==
    LET i == y * GridWidth + x
    IN  IF i + 1 \in DOMAIN pixels THEN pixels[i + 1] ELSE DefaultPixel

\* [(pixel.2[0] as i32).pow(2), (pixel.2[1] as i32).pow(2), (pixel.2[2] as i32).pow(2)]
color_of(pixel) ==
    <<pixel[3][1] * pixel[3][1], pixel[3][2] * pixel[3][2], pixel[3][3] * pixel[3][3]>>

\* variant of should_push: the comparison with prev_color is left out
should_push_always(color, prev_color, x, y) == ~(x = 0 /\ y = 0)

\* Some(color) != prev_color && !(x == 0 && y == 0)
should_push(color, prev_color, x, y) ==
    Some(color) # prev_color /\ ~(x = 0 /\ y = 0)

\* vec![color[0] - prev_color.unwrap()[0], ...]
delta_of(color, prev_color) ==
    <<color[1] - unwrap(prev_color)[1],
      color[2] - unwrap(prev_color)[2],
      color[3] - unwrap(prev_color)[3]>>

\* variant of next_prev_color: the first cell stays the reference colour
next_prev_color_baseline(color, prev_color) ==
    IF prev_color = None THEN Some(color) ELSE prev_color

\* prev_color = Some(color)
next_prev_color(color, prev_color) == Some(color)

\* variant of LoopRows: the outer loop runs one row too far
LoopRowsOffByOne == GridHeight + 1

\* for y in 0..16
LoopRows == GridHeight

\* The body of the inner loop at cell (x, y).  The loop state is prev_color
\* and result; every pushed vector is recorded with the cell that pushed it.
cell_step(pixels, x, y, st) ==
    LET pixel == pixel_at(pixels, x, y)
        color == color_of(pixel)
    IN  [prev_color |-> next_prev_color(color, st.prev_color),
         result |->
             IF should_push(color, st.prev_color, x, y)
             THEN Append(st.result,
                         [cell |-> <<x, y>>, delta |-> delta_of(color, st.prev_color)])
             ELSE st.result]

\* for x in 0..16
RECURSIVE row_loop(_, _, _, _)
row_loop(pixels, x, y, st) ==
    IF x >= GridWidth
    THEN st
    ELSE Only({row_loop(pixels, x + 1, y, s) : s \in {cell_step(pixels, x, y, st)}})

\* for y in 0..16
RECURSIVE pixels_diff_loop(_, _, _)
pixels_diff_loop(pixels, y, st) ==
    IF y >= LoopRows
    THEN st
    ELSE Only({pixels_diff_loop(pixels, y + 1, s) : s \in {row_loop(pixels, 0, y, st)}})

pixels_diff_trace(pixels) ==
    pixels_diff_loop(pixels, 0, [prev_color |-> None, result |-> <<>>]).result

_get_pixels_diff(file) ==
    LET original_img == image_open(file)
    IN  IF original_img.tag = "Err"
        THEN original_img
        ELSE LET converted_img == convert_to_rgba(original_img.val)
             IN  IF converted_img.tag = "Panic"
                 THEN converted_img
                 ELSE LET trace == pixels_diff_trace(collect_pixels(file))
                      IN  Ok([i \in 1 .. Len(trace) |-> trace[i].delta])

---------------------------------------------------------------------------
(* ImagesComparer::_get_diff, similarity_percentage, compare *)

Min(a, b) == IF a <= b THEN a ELSE b

Abs(a) == IF a < 0 THEN -a ELSE a

\* largest r in lo .. hi with r * r <= m
RECURSIVE ISqrt(_, _, _)
ISqrt(m, lo, hi) ==
    IF lo >= hi
    THEN lo
    ELSE LET mid == (lo + hi + 1) \div 2
         IN  IF mid * mid <= m THEN ISqrt(m, mid, hi) ELSE ISqrt(m, lo, mid - 1)

\* (d as f32).abs().sqrt(), as a fixed-point value
abs_sqrt(d) == ISqrt(Abs(d) * Scale * Scale, 0, 46340)

\* variant of diff_term: the channels are added instead of subtracted
diff_term_sum(fp0, fp1, i) ==
    abs_sqrt(fp0[i][1] + fp1[i][1])
    + abs_sqrt(fp0[i][2] + fp1[i][2])
    + abs_sqrt(fp0[i][3] + fp1[i][3])

\* variant of diff_term: all three lines read channel 0
diff_term_first_channel(fp0, fp1, i) ==
    abs_sqrt(fp0[i][1] - fp1[i][1])
    + abs_sqrt(fp0[i][1] - fp1[i][1])
    + abs_sqrt(fp0[i][1] - fp1[i][1])

\* one iteration of the loop of _get_diff: the three channels of entry i
diff_term(fp0, fp1, i) ==
    abs_sqrt(fp0[i][1] - fp1[i][1])
    + abs_sqrt(fp0[i][2] - fp1[i][2])
    + abs_sqrt(fp0[i][3] - fp1[i][3])

\* variant of diff_len: the loop stops one entry early
diff_len_short(fp0, fp1) ==
    IF Min(Len(fp0), Len(fp1)) = 0 THEN 0 ELSE Min(Len(fp0), Len(fp1)) - 1

\* std::cmp::min(self.images[0].0.len(), self.images[1].0.len())
diff_len(fp0, fp1) == Min(Len(fp0), Len(fp1))

\* The loop of _get_diff, for i in 0 .. min(len, len): entries are added in
\* index order, BlockLen of them per level of recursion.
BlockLen == 16

RECURSIVE diff_block(_, _, _, _, _)
diff_block(fp0, fp1, i, stop, diff) ==
    IF i > stop
    THEN diff
    ELSE Only({diff_block(fp0, fp1, i + 1, stop, d) : d \in {diff + diff_term(fp0, fp1, i)}})

RECURSIVE diff_loop(_, _, _, _)
diff_loop(fp0, fp1, i, diff) ==
    IF i > diff_len(fp0, fp1)
    THEN diff
    ELSE LET stop == Min(i + BlockLen - 1, diff_len(fp0, fp1))
         IN  Only({diff_loop(fp0, fp1, stop + 1, d) : d \in {diff_block(fp0, fp1, i, stop, diff)}})

_get_diff(images) == diff_loop(images[1].fp, images[2].fp, 1, 0)

num_pixels == 16 * 16

max_possible_difference_per_channel == 100

channels_count == 3

max_total_difference ==
    num_pixels * channels_count * max_possible_difference_per_channel

\* A percentage p is held as the integer p * PercentDen.
PercentDen == (max_total_difference * Scale) \div 100

Hundred == 100 * PercentDen

\* variant of clamp: the value is returned as computed
clamp_none(v, lo, hi) == v

clamp(v, lo, hi) == IF v < lo THEN lo ELSE IF v > hi THEN hi ELSE v

\* 100.0 - (total_difference / max_total_difference) * 100.0
percentage_similarity(total_difference) == Hundred - total_difference

similarity_percentage(images) ==
    clamp(percentage_similarity(_get_diff(images)), 0, Hundred)

\* HashMap::insert
insert(map, key, value) ==
    [k \in DOMAIN map \cup {key} |-> IF k = key THEN value ELSE map[k]]

\* f32 as i32: truncation towards zero
as_i32(v) == v \div Scale

\* variant of compare: the difference is stored with the second image
compare_into_second(images) ==
    [images EXCEPT ![2].meta = insert(images[2].meta, 1, as_i32(_get_diff(images)))]

compare(images) ==
    [images EXCEPT ![1].meta = insert(images[1].meta, 1, as_i32(_get_diff(images)))]

---------------------------------------------------------------------------
(* Formatting *)

Digit(d) == ToString(d)

\* variant of fmt_2: one decimal place, {:.1}
fmt_1(num) ==
    LET h == (2 * 10 * num + PercentDen) \div (2 * PercentDen)
    IN  ToString(h \div 10) \o "." \o Digit(h % 10)

\* {:.2} of a percentage held as num / PercentDen
fmt_2(num) ==
    LET h == (2 * 100 * num + PercentDen) \div (2 * PercentDen)
    IN  ToString(h \div 100) \o "." \o Digit((h % 100) \div 10) \o Digit(h % 10)

\* {:?} of a HashMap<usize, i32>; the program never holds more than one key
RECURSIVE fmt_entries(_, _)
fmt_entries(map, keys) ==
    IF keys = {}
    THEN ""
    ELSE LET k == CHOOSE j \in keys : \A l \in keys : j <= l
             rest == keys \ {k}
         IN  ToString(k) \o ": " \o ToString(map[k])
             \o (IF rest = {} THEN "" ELSE ", " \o fmt_entries(map, rest))

fmt_debug(map) == "{" \o fmt_entries(map, DOMAIN map) \o "}"

LitResults == "Results:"

LitImage == "Image "

LitSimilarity ==
    "\\u{41f}\\u{440}\\u{43e}\\u{446}\\u{435}\\u{43d}\\u{442} \\u{441}\\u{445}\\u{43e}\\u{436}\\u{435}\\u{441}\\u{442}\\u{438}: "

LitCreateError ==
    "\\u{41e}\\u{448}\\u{438}\\u{431}\\u{43a}\\u{430} \\u{43f}\\u{440}\\u{438} \\u{441}\\u{43e}\\u{437}\\u{434}\\u{430}\\u{43d}\\u{438}\\u{438} \\u{43a}\\u{43e}\\u{43c}\\u{43f}\\u{430}\\u{440}\\u{430}\\u{442}\\u{43e}\\u{440}\\u{430}: "

LitNoImages ==
    "\\u{41d}\\u{435}\\u{442} \\u{438}\\u{437}\\u{43e}\\u{431}\\u{440}\\u{430}\\u{436}\\u{435}\\u{43d}\\u{438}\\u{439} \\u{434}\\u{43b}\\u{44f} \\u{441}\\u{440}\\u{430}\\u{432}\\u{43d}\\u{435}\\u{43d}\\u{438}\\u{44f}!"

results_line == LitResults

image_line(i, meta) == LitImage \o ToString(i) \o ": " \o fmt_debug(meta)

similarity_line(percent) == LitSimilarity \o fmt_2(percent) \o "%"

---------------------------------------------------------------------------
(* The program *)

\* main has read its two path arguments (a run with fewer arguments stops at
\* the indexing of args and is not part of the model)
Init ==
    /\ args \in {<<f0, f1>> : f0 \in Files, f1 \in Files}
    /\ pc = "new"
    /\ imgs = <<>>
    /\ comparer = None
    /\ idx = 0
    /\ percent_similarity = None
    /\ stdout = <<>>
    /\ stderr = <<>>

\* ImagesComparer::new, one iteration of its loop: on Err the ? operator
\* leaves new and main prints the error and returns; a panic ends the process.
NewLoadImage ==
    /\ pc = "new"
    /\ Len(imgs) < Len(args)
    /\ LET diff_pixels == _get_pixels_diff(args[Len(imgs) + 1])
       IN  CASE diff_pixels.tag = "Ok" ->
                  /\ imgs' = Append(imgs, [fp |-> diff_pixels.val, meta |-> <<>>])
                  /\ UNCHANGED <<pc, stderr>>
             [] diff_pixels.tag = "Err" ->
                  /\ stderr' = Append(stderr, LitCreateError \o diff_pixels.val)
                  /\ pc' = "returned"
                  /\ UNCHANGED imgs
             [] diff_pixels.tag = "Panic" ->
                  /\ stderr' = Append(stderr, diff_pixels.val)
                  /\ pc' = "panicked"
                  /\ UNCHANGED imgs
    /\ UNCHANGED <<args, comparer, idx, percent_similarity, stdout>>

\* ImagesComparer::new returns Ok(Self {..}); main binds it and checks is_empty
NewOk ==
    /\ pc = "new"
    /\ Len(imgs) = Len(args)
    /\ comparer' = Some([compare_with_first |-> FALSE, images |-> imgs])
    /\ IF imgs = <<>>
       THEN /\ stderr' = Append(stderr, LitNoImages)
            /\ pc' = "returned"
       ELSE /\ pc' = "compare"
            /\ UNCHANGED stderr
    /\ UNCHANGED <<args, imgs, idx, percent_similarity, stdout>>

\* comparer.compare()
Compare ==
    /\ pc = "compare"
    /\ comparer' = Some([unwrap(comparer) EXCEPT !.images = compare(@)])
    /\ pc' = "print_results"
    /\ UNCHANGED <<args, imgs, idx, percent_similarity, stdout, stderr>>

\* println!("Results:")
PrintResults ==
    /\ pc = "print_results"
    /\ stdout' = Append(stdout, results_line)
    /\ idx' = 0
    /\ pc' = "print_images"
    /\ UNCHANGED <<args, imgs, comparer, percent_similarity, stderr>>

\* one iteration of: for (idx, data) in comparer.images.iter().enumerate()
PrintImage ==
    /\ pc = "print_images"
    /\ idx < Len(unwrap(comparer).images)
    /\ stdout' = Append(stdout, image_line(idx, unwrap(comparer).images[idx + 1].meta))
    /\ idx' = idx + 1
    /\ UNCHANGED <<args, pc, imgs, comparer, percent_similarity, stderr>>

\* let percent_similarity = comparer.similarity_percentage()
Similarity ==
    /\ pc = "print_images"
    /\ idx = Len(unwrap(comparer).images)
    /\ percent_similarity' = Some(similarity_percentage(unwrap(comparer).images))
    /\ pc' = "print_similarity"
    /\ UNCHANGED <<args, imgs, comparer, idx, stdout, stderr>>

\* println!("...: {:.2}%", percent_similarity); main returns
PrintSimilarity ==
    /\ pc = "print_similarity"
    /\ stdout' = Append(stdout, similarity_line(unwrap(percent_similarity)))
    /\ pc' = "done"
    /\ UNCHANGED <<args, imgs, comparer, idx, percent_similarity, stderr>>

Next ==
    \/ NewLoadImage
    \/ NewOk
    \/ Compare
    \/ PrintResults
    \/ PrintImage
    \/ Similarity
    \/ PrintSimilarity

Spec == Init /\ [][Next]_vars

---------------------------------------------------------------------------
(* Properties *)

Images == unwrap(comparer).images

Constructed == comparer # None

\* the aggregate difference 256 * 3 * 100 in fixed point
MaxTotalFixed == max_total_difference * Scale

\* the file cannot be loaded and normalized
Bad(f) == ~f.readable \/ f.variant \notin SupportedVariants

\* grid cell number k (row-major, 0-based) of a file: its (x, y) and the
\* squares of its red, green and blue values
CellOf(k) == <<k % GridWidth, k \div GridWidth>>

CellIndex(c) == c[2] * GridWidth + c[1]

Rgb(f, k) == SubSeq(collect_pixels(f)[k + 1][3], 1, 3)

SqColour(f, k) == [c \in 1 .. 3 |-> Rgb(f, k)[c] * Rgb(f, k)[c]]

LastCell == GridWidth * GridHeight - 1

Uniform(f) == \A k \in 1 .. LastCell : Rgb(f, k) = Rgb(f, 0)

\* the image that the last iteration of ImagesComparer::new has just loaded
JustLoaded == pc = "new" /\ Len(imgs) >= 1

LoadedFile == args[Len(imgs)]

LoadedTrace == pixels_diff_trace(collect_pixels(LoadedFile))

(* C1: similarity_percentage() returns a value between 0.0 and 100.0,      *)
(* also when the aggregate difference exceeds 256 * 3 * 100 = 76800.       *)
C1_SimilarityInRange ==
    percent_similarity # None =>
        /\ unwrap(percent_similarity) >= 0
        /\ unwrap(percent_similarity) <= Hundred
        /\ (_get_diff(Images) >= MaxTotalFixed => unwrap(percent_similarity) = 0)

C1_Witness ==
    /\ pc = "done"
    /\ _get_diff(Images) > MaxTotalFixed
    /\ percent_similarity = Some(0)

(* C2: with the same fingerprint in both slots of the comparator the       *)
(* aggregate difference is 0 and similarity_percentage() is exactly 100.0. *)
C2_IdenticalIsHundred ==
    (Constructed /\ Images[1].fp = Images[2].fp) =>
        /\ _get_diff(Images) = 0
        /\ similarity_percentage(Images) = Hundred
        /\ (percent_similarity # None => percent_similarity = Some(Hundred))
        /\ (1 \in DOMAIN Images[1].meta => Images[1].meta[1] = 0)

C2_Witness ==
    /\ pc = "done"
    /\ args[1] = args[2]
    /\ Images[1].fp = Images[2].fp
    /\ Len(Images[1].fp) > 0
    /\ percent_similarity = Some(Hundred)

(* C3: the fingerprint extracted from a 16x16 grid has between 0 and 255   *)
(* entries, and none of them was produced for grid cell (x=0, y=0).        *)
C3_FingerprintLength ==
    JustLoaded =>
        LET trace == LoadedTrace
        IN  /\ Len(trace) >= 0
            /\ Len(trace) <= 255
            /\ \A j \in DOMAIN trace : trace[j].cell # <<0, 0>>
            /\ Len(imgs[Len(imgs)].fp) = Len(trace)

C3_Witness ==
    /\ pc = "new"
    /\ Len(imgs) = 2
    /\ Len(imgs[1].fp) = 255
    /\ Len(imgs[2].fp) = 0
    /\ SqColour(args[1], 0) # <<0, 0, 0>>

(* C9: extraction is row-major; cell k >= 1 contributes an entry exactly   *)
(* when its colour (R^2, G^2, B^2) differs from that of cell k-1, the      *)
(* entry is colour(k) - colour(k-1), entries are in increasing cell order  *)
(* and none is the zero vector.                                            *)
C9_DeltaToPrecedingCell ==
    JustLoaded =>
        LET trace == LoadedTrace
            cells == {trace[j].cell : j \in DOMAIN trace}
        IN  /\ \A k \in 1 .. LastCell :
                  (CellOf(k) \in cells)
                      <=> (SqColour(LoadedFile, k) # SqColour(LoadedFile, k - 1))
            /\ \A j \in DOMAIN trace :
                  LET k == CellIndex(trace[j].cell)
                  IN  /\ k \in 1 .. LastCell
                      /\ trace[j].delta =
                            [c \in 1 .. 3 |->
                                SqColour(LoadedFile, k)[c] - SqColour(LoadedFile, k - 1)[c]]
                      /\ trace[j].delta # <<0, 0, 0>>
            /\ \A j \in 1 .. Len(trace) - 1 :
                  CellIndex(trace[j].cell) < CellIndex(trace[j + 1].cell)
            /\ imgs[Len(imgs)].fp = [j \in DOMAIN trace |-> trace[j].delta]

\* a cell repeats the colour of its predecessor (no entry), and a later cell
\* returns to the colour of cell 0 after a change (an entry all the same)
C9_Witness ==
    /\ pc = "new"
    /\ Len(imgs) = 1
    /\ Len(imgs[1].fp) > 1
    /\ \E k \in 1 .. LastCell : SqColour(args[1], k) = SqColour(args[1], k - 1)
    /\ \E k \in 2 .. LastCell :
          /\ SqColour(args[1], k) = SqColour(args[1], 0)
          /\ SqColour(args[1], k) # SqColour(args[1], k - 1)

\* sum over the entries lo .. hi and the three channels of
\* sqrt(abs(fp0[i][c] - fp1[i][c]))
RECURSIVE TermSum(_, _, _, _)
TermSum(fp0, fp1, lo, hi) ==
    IF lo > hi
    THEN 0
    ELSE IF lo = hi
         THEN abs_sqrt(fp0[lo][1] - fp1[lo][1]) + abs_sqrt(fp0[lo][2] - fp1[lo][2])
              + abs_sqrt(fp0[lo][3] - fp1[lo][3])
         ELSE TermSum(fp0, fp1, lo, (lo + hi) \div 2)
              + TermSum(fp0, fp1, (lo + hi) \div 2 + 1, hi)

\* entries put in the place of those at index >= n
Tails == {<<>>, << <<65025, -65025, 1>>, <<-1, 0, 65025>> >>}

\* the comparator state with t as the entries at index >= n of the image
\* slot, for n the length of the other fingerprint when that is the shorter
WithTail(images, slot, t) ==
    LET n == Min(Len(images[1].fp), Len(images[2].fp))
    IN  [images EXCEPT ![slot].fp = SubSeq(images[slot].fp, 1, n) \o t]

(* C4: the aggregate difference is the sum over i < n = min(len, len) and  *)
(* the three channels of sqrt(abs(fp0[i][c] - fp1[i][c])); the entries of  *)
(* the longer fingerprint at index >= n change neither the difference nor  *)
(* the similarity.                                                         *)
C4_PositionalTruncated ==
    pc = "compare" =>
        LET fp0 == Images[1].fp
            fp1 == Images[2].fp
            n == Min(Len(fp0), Len(fp1))
            diff == _get_diff(Images)
        IN  /\ diff = TermSum(fp0, fp1, 1, n)
            /\ \A slot \in {1, 2} : \A t \in Tails :
                  Len(Images[3 - slot].fp) = n =>
                      /\ _get_diff(WithTail(Images, slot, t)) = diff
                      /\ similarity_percentage(WithTail(Images, slot, t))
                             = similarity_percentage(Images)

C4_Witness ==
    /\ pc = "compare"
    /\ Len(Images[1].fp) > Len(Images[2].fp)
    /\ Len(Images[2].fp) > 0
    /\ _get_diff(Images) > 0
    /\ Images[1].fp # WithTail(Images, 1, <<>>)[1].fp

(* C5: when either file fails to open or decodes to an unsupported pixel   *)
(* encoding, no comparator is constructed, compare() is not called and     *)
(* nothing is printed to standard output; no fingerprint stands in for the *)
(* image that failed.                                                      *)
C5_FailureAborts ==
    (Bad(args[1]) \/ Bad(args[2])) =>
        /\ comparer = None
        /\ pc \in {"new", "returned", "panicked"}
        /\ stdout = <<>>
        /\ percent_similarity = None
        /\ \A i \in 1 .. Len(imgs) : ~Bad(args[i])
        /\ (pc # "new" <=> stderr # <<>>)

C5_Witness ==
    /\ pc = "panicked"
    /\ ~Bad(args[1])
    /\ Bad(args[2])
    /\ Len(imgs) = 1
    /\ stdout = <<>>

\* the lines main prints on a successful run, the last one starting with lit
ExpectedOutput(lit) ==
    LET d == Images[1].meta[1]
        p == unwrap(percent_similarity)
        lo == (100 * p) \div PercentDen
        h == IF 2 * (100 * p - lo * PercentDen) >= PercentDen THEN lo + 1 ELSE lo
    IN  << "Results:",
           "Image 0: {1: " \o ToString(d) \o "}",
           "Image 1: {}",
           lit \o ToString(h \div 100) \o "." \o ToString((h % 100) \div 10)
               \o ToString(h % 10) \o "%" >>

IsPrefix(a, b) == Len(a) <= Len(b) /\ a = SubSeq(b, 1, Len(a))

(* C6 as stated: the last line is "Similarity percentage: {:.2}%".         *)
C6_OutputAsStated ==
    pc = "done" => stdout = ExpectedOutput("Similarity percentage: ")

(* C6: on a successful run standard output is "Results:", then             *)
(* "Image 0: {1: <integer difference>}", "Image 1: {}", then the           *)
(* percentage line with two decimal places, whose literal prefix is the    *)
(* program's own Russian text.                                             *)
C6_OutputLines ==
    /\ pc = "done" =>
          /\ stdout = ExpectedOutput(LitSimilarity)
          /\ Images[1].meta[1] = as_i32(_get_diff(Images))
          /\ DOMAIN Images[2].meta = {}
    /\ pc = "print_similarity" => IsPrefix(stdout, ExpectedOutput(LitSimilarity))
    /\ pc \in {"new", "compare", "print_results"} => stdout = <<>>
    /\ pc = "print_images" =>
          /\ Len(stdout) = idx + 1
          /\ stdout[1] = "Results:"

C6_Witness ==
    /\ pc = "done"
    /\ Len(stdout) = 4
    /\ Images[1].meta[1] > 0
    /\ unwrap(percent_similarity) % PercentDen # 0

(* C7: for two uniform grids, of the same or of different colours, both    *)
(* fingerprints are empty, the aggregate difference is 0 and the           *)
(* similarity is 100.00.                                                   *)
C7_UniformGrids ==
    (~Bad(args[1]) /\ ~Bad(args[2]) /\ Uniform(args[1]) /\ Uniform(args[2])) =>
        /\ \A i \in 1 .. Len(imgs) : imgs[i].fp = <<>>
        /\ Constructed =>
              /\ _get_diff(Images) = 0
              /\ similarity_percentage(Images) = Hundred
        /\ percent_similarity # None => percent_similarity = Some(Hundred)
        /\ pc = "done" => stdout[4] = LitSimilarity \o "100.00%"

C7_Witness ==
    /\ pc = "done"
    /\ Uniform(args[1])
    /\ Uniform(args[2])
    /\ Rgb(args[1], 0) # Rgb(args[2], 0)
    /\ Images[1].fp = <<>>
    /\ Images[2].fp = <<>>
    /\ percent_similarity = Some(Hundred)

\* the two grids are equal outside one quadrant and differ in colour in
\* every cell of it
OnlyQuadrantDiffers ==
    /\ ~Bad(args[1])
    /\ ~Bad(args[2])
    /\ \E q \in 1 .. 4 :
          \A k \in 0 .. LastCell :
              IF InQuadrant(q, CellOf(k)[1], CellOf(k)[2])
              THEN Rgb(args[1], k) # Rgb(args[2], k)
              ELSE collect_pixels(args[1])[k + 1][3] = collect_pixels(args[2])[k + 1][3]

(* C8 as stated: two images that differ only in one quadrant's colour have *)
(* a nonzero aggregate difference and a similarity strictly between 0 and  *)
(* 100.                                                                    *)
C8_QuadrantAsStated ==
    (pc = "done" /\ OnlyQuadrantDiffers) =>
        /\ _get_diff(Images) > 0
        /\ unwrap(percent_similarity) > 0
        /\ unwrap(percent_similarity) < Hundred

(* C8: two images that differ only in one quadrant's colour have a finite  *)
(* aggregate difference, which is nonzero exactly when the fingerprints    *)
(* differ at an index both have (it is 0 when one grid is uniform); the    *)
(* similarity is below 100 exactly when the difference is nonzero and      *)
(* above 0 exactly when the difference is below 76800.                     *)
C8_QuadrantDifference ==
    (pc = "done" /\ OnlyQuadrantDiffers) =>
        LET fp0 == Images[1].fp
            fp1 == Images[2].fp
            n == Min(Len(fp0), Len(fp1))
            diff == _get_diff(Images)
            p == unwrap(percent_similarity)
        IN  /\ diff >= 0
            /\ (diff > 0) <=> (\E i \in 1 .. n : fp0[i] # fp1[i])
            /\ (Uniform(args[1]) \/ Uniform(args[2])) => diff = 0
            /\ p >= 0 /\ p <= Hundred
            /\ (p < Hundred) <=> (diff > 0)
            /\ (p > 0) <=> (diff < MaxTotalFixed)

C8_Witness ==
    /\ pc = "done"
    /\ OnlyQuadrantDiffers
    /\ _get_diff(Images) > 0
    /\ unwrap(percent_similarity) > 0
    /\ unwrap(percent_similarity) < Hundred

(* C10: compare() changes only the first image's metadata map, which       *)
(* becomes {1 -> aggregate difference truncated to an integer}; the second *)
(* map stays empty, both fingerprints are unchanged, and                   *)
(* similarity_percentage() returns the same value before and after one or  *)
(* more calls of compare().                                                *)
C10_CompareFrame ==
    [][pc = "compare" =>
          LET before == unwrap(comparer).images
              after == unwrap(comparer').images
          IN  /\ after[1].meta = (1 :> (_get_diff(before) \div Scale))
              /\ after[2].meta = <<>>
              /\ before[2].meta = <<>>
              /\ after[1].fp = before[1].fp
              /\ after[2].fp = before[2].fp
              /\ Len(after) = Len(before)
              /\ unwrap(comparer').compare_with_first = unwrap(comparer).compare_with_first
              /\ similarity_percentage(after) = similarity_percentage(before)
              /\ compare(after) = after
              /\ similarity_percentage(compare(compare(after)))
                     = similarity_percentage(before)
              /\ UNCHANGED <<args, imgs, idx, percent_similarity, stdout, stderr>>
      ]_vars

C10_Witness ==
    /\ pc = "print_results"
    /\ DOMAIN Images[1].meta = {1}
    /\ Images[1].meta[1] > 0
    /\ Images[1].meta[1] * Scale < _get_diff(Images)
    /\ Images[2].meta = <<>>

====
